---- MODULE Spec2Model ----
(***************************************************************************)
(* Capsule layer, vote-mixture likelihood, object decoder and set          *)
(* transformer of torch_scae (object_decoder.py, set_transformer.py).      *)
(*                                                                         *)
(* Number representation.  Tensors are functions over 0-based index        *)
(* ranges.  Real numbers are held on fixed grids:                          *)
(*   - probabilities in units of 1/PScale;                                 *)
(*   - vote scales in units of 1/SScale;                                   *)
(*   - every log-domain value (logit, log-density, log-probability) in     *)
(*     units of ln(10), so that -2*ln(10) is the integer -2 and exp is a   *)
(*     power of ten;                                                       *)
(*   - exp underflows to 0 once its argument is more than ExpDigits        *)
(*     decades below the largest one, as a float exp does;                 *)
(*   - a softmax output is the pair (numerators, denominator), exact.      *)
(***************************************************************************)
EXTENDS Integers, Sequences, FiniteSets, TLC

\* ------------------------------------------------------------- bounds
MaxBatch == 2
MaxCaps == 2
MaxPoints == 2

\* ------------------------------------------------------------- grids
PScale == 10 ^ 3
SScale == 10 ^ 1
ExpDigits == 4

\* number of parameters of a linear transformation (P)
n_transform_params == 6

\* -2 * ln(10), in units of ln(10)
DummyVoteLogProb == -2
DummyLogit == -2

VARIABLES
    lik,          \* CapsuleLikelihood fields: vote, scale, vote_presence_prob, dummy_vote
    lik_x,        \* observed points x passed to the likelihood, (B, M, P)
    lik_presence, \* point-presence mask passed to the likelihood, (B, M) or None
    lik_res,      \* what the last likelihood call returned
    layer,        \* the CapsuleLayer object: options and learned parameters
    layer_call,   \* the last CapsuleLayer.forward call: arguments and outcome
    dec,          \* the CapsuleObjectDecoder object: capsule_layer, dummy_vote
    dec_call,     \* the last CapsuleObjectDecoder.forward call
    st,           \* the SetTransformer object: fc1, sabs, fc2, pma
    st_call       \* the last SetTransformer.forward call: arguments and outcome

likVars == <<lik, lik_x, lik_presence, lik_res>>
layerVars == <<layer, layer_call>>
decVars == <<dec, dec_call>>
stVars == <<st, st_call>>
vars == <<likVars, layerVars, decVars, stVars>>

\* an optional argument: None, or Some(tensor)
NoObject == [status |-> "none"]
None == [none |-> TRUE]
Some(t) == [none |-> FALSE, t |-> t]
Pending == [status |-> "pending"]

\* ------------------------------------------------------------- arithmetic
RECURSIVE SumRange(_, _)
SumRange(f, n) == IF n = 0 THEN 0 ELSE f[n - 1] + SumRange(f, n - 1)

RECURSIVE MaxRange(_, _)
MaxRange(f, n) ==
    IF n = 1 THEN f[0]
    ELSE LET r == MaxRange(f, n - 1) IN IF f[n - 1] > r THEN f[n - 1] ELSE r

RECURSIVE ILog10(_)
ILog10(n) == IF n < 10 THEN 0 ELSE 1 + ILog10(n \div 10)

Exp10W(d) == IF -d > ExpDigits THEN 0 ELSE 10 ^ (ExpDigits + d)

\* the function f over 0..n-1, tabulated (each entry evaluated once)
RECURSIVE Tab(_, _)
Tab(f, n) == IF n = 0 THEN <<>> ELSE Tab(f, n - 1) @@ ((n - 1) :> f[n - 1])

\* a point or vote of P coordinates, all in the first coordinate
Vec(c) == [k \in 1..n_transform_params |-> IF k = 1 THEN c ELSE 0]

\* ------------------------------------------------------------- math_ops
\* safe log: zero probability gives a large negative value, not -infinity
LogFloor == -(10 ^ 8)

\* log10(p / PScale) rounded to the nearest decade (the grid of the logits)
RoundLog10(p) ==
    LET d == ILog10(p)
    IN  (IF p * p >= 10 * (10 ^ d) * (10 ^ d) THEN d + 1 ELSE d) - ILog10(PScale)

LogSafe(p) == IF p < 1 THEN LogFloor ELSE RoundLog10(p)

\* ------------------------------------------------------------- CapsuleLikelihood
Dim(t) == Cardinality(DOMAIN t)

\* torch.distributions.Normal(loc, scale).log_prob(value), one coordinate;
\* coordinates are in units of sqrt(2 ln 10), the normaliser
\* log10(scale * sqrt(2 pi)) is rounded to the nearest decade
LogNormaliser(scale) ==
    CASE scale * 25 >= 316 -> 1
      [] scale * 25 >= 32 -> 0
      [] OTHER -> -1

NormalLogProb(value, loc, scale) ==
    -(((value - loc) * (value - loc) * SScale * SScale) \div (scale * scale))
        - LogNormaliser(scale)

\* The tensors of forward are given element by element: T(L, x, b, o, m)
\* is T[b, o, m].  Component o = n_caps is the dummy, concatenated last.

\* every vote slot of the capsule a candidate: the best slot's log-density
VoteLogProbBestSlot(L, x, b, o, m) ==
    IF o = L.n_caps THEN DummyVoteLogProb
    ELSE MaxRange([m2 \in 0..(Dim(x[b]) - 1) |->
            SumRange([k \in 0..(n_transform_params - 1) |->
                NormalLogProb(x[b][m][k + 1], L.vote[b][o][m2][k + 1],
                              L.scale[b][o][m2])], n_transform_params)], Dim(x[b]))

\* vote_log_prob (B, O+1, M): per-component log-density summed over the
\* P coordinates, the dummy's constant appended last
VoteLogProb(L, x, b, o, m) ==
    IF o = L.n_caps THEN DummyVoteLogProb
    ELSE SumRange([k \in 0..(n_transform_params - 1) |->
             NormalLogProb(x[b][m][k + 1], L.vote[b][o][m][k + 1],
                           L.scale[b][o][m])], n_transform_params)

\* mixing_logit (B, O+1, M): safe log of the presence probabilities, the
\* dummy logit last
MixingLogit(L, x, b, o, m) ==
    IF o = L.n_caps THEN DummyLogit ELSE LogSafe(L.vote_presence_prob[b][o][m])

\* logsumexp of f[0..n-1]
LogSumExp(f, n) ==
    LET mx == MaxRange(f, n)
        tot == SumRange([i \in 0..(n - 1) |-> Exp10W(f[i] - mx)], n)
    IN  mx + ILog10(tot) - ExpDigits

\* softmax of f[0..n-1], as numerators over one denominator
Softmax(f, n) ==
    LET mx == MaxRange(f, n)
        w == Tab([i \in 0..(n - 1) |-> Exp10W(f[i] - mx)], n)
    IN  [num |-> w, den |-> SumRange(w, n)]

\* a tie resolved the other way: the last index holding the maximum
ArgMaxLast(f, n) ==
    LET mx == MaxRange(f, n)
    IN  CHOOSE i \in 0..(n - 1) : f[i] = mx /\ \A j \in 0..(n - 1) : f[j] = mx => i >= j

\* torch.argmax of f[0..n-1]: the first index holding the maximum
ArgMax(f, n) ==
    LET mx == MaxRange(f, n)
    IN  CHOOSE i \in 0..(n - 1) : f[i] = mx /\ \A j \in 0..(n - 1) : f[j] = mx => i <= j

\* posterior_mixing_logits_per_point (B, O+1, M), the column of point (b, m)
PosteriorMixingLogits(L, x, b, m) ==
    Tab([o \in 0..L.n_caps |->
            MixingLogit(L, x, b, o, m) + VoteLogProb(L, x, b, o, m)], L.n_caps + 1)

\* the mask forgotten: every point counts
MixtureLogProbPerPointUnmasked(L, pl, presence, b, m) ==
    LogSumExp(pl, L.n_caps + 1)

\* mixture_log_prob_per_point (B, M) at (b, m): logsumexp over the
\* components of (mixing_logit + vote_log_prob), column pl, times the
\* presence mask if one is given
MixtureLogProbPerPoint(L, pl, presence, b, m) ==
    LET lse == LogSumExp(pl, L.n_caps + 1)
    IN  IF presence = None THEN lse ELSE lse * presence.t[b][m]

\* winning_vote_idx (B, M) at a point with posterior logits pl: argmax over
\* the real components only ([:, :-1])
WinningVoteIdx(L, pl) ==
    ArgMax([o \in 0..(L.n_caps - 1) |-> pl[o]], L.n_caps)

\* the comparison turned round
VotePresenceFlipped(L, x, b, o, m) ==
    IF MixingLogit(L, x, b, o, m) < MixingLogit(L, x, b, L.n_caps, m) THEN 1 ELSE 0

\* vote_presence (B, O, M): 1.0 where a capsule's mixing logit exceeds the
\* dummy's
VotePresence(L, x, b, o, m) ==
    IF MixingLogit(L, x, b, o, m) > MixingLogit(L, x, b, L.n_caps, m) THEN 1 ELSE 0

\* F.softmax(posterior_mixing_logits_per_point, 1) at a point, (O+1)
PosteriorMixingProbFull(L, pl) == Softmax(pl, L.n_caps + 1)

\* the slice taken at the wrong end ([:, 1:])
PosteriorMixingProbDropFirst(L, full) ==
    [num |-> Tab([o \in 0..(L.n_caps - 1) |-> full.num[o + 1]], L.n_caps),
     den |-> full.den]

\* posterior_mixing_prob[:, :-1].transpose(1, 2), (B, M, O): one row, from
\* the point's full softmax
PosteriorMixingProb(L, full) ==
    [num |-> Tab([o \in 0..(L.n_caps - 1) |-> full.num[o]], L.n_caps),
     den |-> full.den]

\* soft_winner (B, M, P) as num/den: posterior-weighted sum of all votes,
\* the dummy vote included
SoftWinner(L, full, b, m) ==
    [num |-> [k \in 1..n_transform_params |->
                SumRange([o \in 0..L.n_caps |-> full.num[o] *
                    (IF o = L.n_caps THEN L.dummy_vote[m][k]
                     ELSE L.vote[b][o][m][k])], L.n_caps + 1)],
     den |-> full.den]

\* soft_winner_presence (B, M) as num/den: the dummy's presence is 0
SoftWinnerPresence(L, full, b, m) ==
    [num |-> SumRange([o \in 0..L.n_caps |-> full.num[o] *
                (IF o = L.n_caps THEN 0 ELSE L.vote_presence_prob[b][o][m])],
                L.n_caps + 1),
     den |-> full.den]

\* mixing_log_prob (B, O+1, M): mixing logits normalised over the components
MixingLogProb(L, x, b, o, m) ==
    MixingLogit(L, x, b, o, m) -
        LogSumExp([j \in 0..L.n_caps |-> MixingLogit(L, x, b, j, m)], L.n_caps + 1)

\* everything forward computes for one point (b, m)
PointOutputs(L, x, presence, b, m) ==
    LET pl == PosteriorMixingLogits(L, x, b, m)
        full == PosteriorMixingProbFull(L, pl)
        idx == WinningVoteIdx(L, pl)
    IN  [mixture_log_prob |-> MixtureLogProbPerPoint(L, pl, presence, b, m),
         winner |-> L.vote[b][idx][m],
         winner_presence |-> L.vote_presence_prob[b][idx][m],
         soft_winner |-> SoftWinner(L, full, b, m),
         soft_winner_presence |-> SoftWinnerPresence(L, full, b, m),
         posterior_mixing_prob |-> PosteriorMixingProb(L, full),
         is_from_capsule |-> idx \div L.n_votes]

\* CapsuleLikelihood.forward(x, presence)
LikelihoodForward(L, x, presence) ==
    LET B == Dim(x)
        M == Dim(x[0])
        BI == 0..(B - 1)
        MI == 0..(M - 1)
        OI == 0..(L.n_caps - 1)
        pt == Tab([b \in BI |-> Tab([m \in MI |->
                  PointOutputs(L, x, presence, b, m)], M)], B)
        \* mixture_log_prob_per_example = sum over points (B,)
        per_example == [b \in BI |->
            SumRange([m \in MI |-> pt[b][m].mixture_log_prob], M)]
    IN  [status |-> "ok",
         \* mixture_log_prob_per_batch = mean over the batch, as num/den
         log_prob |-> [num |-> SumRange(per_example, B), den |-> B],
         vote_presence |-> [b \in BI |-> [o \in OI |-> [m \in MI |->
                        VotePresence(L, x, b, o, m)]]],
         winner |-> [b \in BI |-> [m \in MI |-> pt[b][m].winner]],
         winner_presence |-> [b \in BI |-> [m \in MI |-> pt[b][m].winner_presence]],
         soft_winner |-> [b \in BI |-> [m \in MI |-> pt[b][m].soft_winner]],
         soft_winner_presence |-> [b \in BI |-> [m \in MI |->
                        pt[b][m].soft_winner_presence]],
         posterior_mixing_prob |-> [b \in BI |-> [m \in MI |->
                        pt[b][m].posterior_mixing_prob]],
         mixing_log_prob |-> [b \in BI |-> [o \in 0..L.n_caps |->
                        [m \in MI |-> MixingLogProb(L, x, b, o, m)]]],
         mixing_logit |-> [b \in BI |-> [o \in 0..L.n_caps |->
                        [m \in MI |-> MixingLogit(L, x, b, o, m)]]],
         is_from_capsule |-> [b \in BI |-> [m \in MI |-> pt[b][m].is_from_capsule]]]

\* ------------------------------------------------------------- SpecLik
\* CapsuleLikelihood as a pure function: Init constructs the likelihood
\* (as CapsuleObjectDecoder.forward does, vote slots = observed points)
\* and draws the call's arguments; LikForward applies forward to them.
VoteOffsets == {0, 1}
PresenceLevels == {0, PScale \div 100, PScale}
ScaleLevels == {SScale, 17}
Delta == 2

Ones(B, M) == [b \in 0..(B - 1) |-> [m \in 0..(M - 1) |-> 1]]
Zeros(B, M) == [b \in 0..(B - 1) |-> [m \in 0..(M - 1) |-> 0]]
OneAbsent(B, M, pos) ==
    [b \in 0..(B - 1) |-> [m \in 0..(M - 1) |-> IF <<b, m>> = pos THEN 0 ELSE 1]]

\* CapsuleLikelihood.__init__
NewCapsuleLikelihood(vote, scale, vote_presence_prob, dummy_vote) ==
    [n_votes |-> 1,
     n_caps |-> Dim(vote[0]),
     vote |-> vote,
     scale |-> scale,
     vote_presence_prob |-> vote_presence_prob,
     dummy_vote |-> dummy_vote]

InitLik ==
    \E B \in 1..MaxBatch, O \in 1..MaxCaps, M \in 1..MaxPoints :
    \E voff \in VoteOffsets, lvl \in [0..(O - 1) -> PresenceLevels],
       sc \in ScaleLevels, pos \in (0..(B - 1)) \X (0..(M - 1)) :
        /\ lik = NewCapsuleLikelihood(
                    [b \in 0..(B - 1) |-> [o \in 0..(O - 1) |-> [m \in 0..(M - 1) |->
                        Vec(m + (IF o = 0 THEN voff ELSE 0))]]],
                    [b \in 0..(B - 1) |-> [o \in 0..(O - 1) |-> [m \in 0..(M - 1) |-> sc]]],
                    [b \in 0..(B - 1) |-> [o \in 0..(O - 1) |-> [m \in 0..(M - 1) |->
                        lvl[o]]]],
                    [m \in 0..(M - 1) |-> Vec(0)])
        /\ lik_x = [b \in 0..(B - 1) |-> [m \in 0..(M - 1) |->
                        Vec(m + (IF <<b, m>> = pos THEN Delta ELSE 0))]]
        /\ lik_presence \in {None, Some(Ones(B, M)), Some(Zeros(B, M)),
                             Some(OneAbsent(B, M, pos))}
        /\ lik_res = Pending
        /\ layer = NoObject /\ layer_call = Pending
        /\ dec = NoObject /\ dec_call = Pending
        /\ st = NoObject /\ st_call = Pending

LikForward ==
    /\ lik_res = Pending
    /\ lik_res' = LikelihoodForward(lik, lik_x, lik_presence)
    /\ UNCHANGED <<lik, lik_x, lik_presence, layerVars, decVars, stVars>>

NextLik == LikForward

SpecLik == InitLik /\ [][NextLik]_vars

\* ------------------------------------------------------------- CapsuleLayer
\* dim_feature = dim_caps = 1 and hidden_sizes = (): every MLP is one linear
\* layer.  Features, capsule parameters and logits are integers.

\* nn_ext.MLP(sizes=[1, 1]) of one capsule: a linear layer with bias
MLP(w, f) == w.w * f + w.b

\* nn_ext.MLP(sizes=[2, A], bias=False) of one capsule on (param, exist):
\* the A outputs, split by self.splits into the five groups of
\* output_shapes and viewed with their shapes
CapsMLP(w, p, e, n_votes) ==
    [cpr_dynamic |-> [v \in 0..(n_votes - 1) |-> [k \in 1..n_transform_params |->
                        w.cpr * p + w.exist * e]],
     cvr |-> [k \in 1..n_transform_params |-> w.cvr * p + w.exist * e],
     presence_per_caps |-> w.pres_caps * p + w.exist * e,
     presence_per_vote |-> [v \in 0..(n_votes - 1) |-> w.pres_vote * p + w.exist * e],
     scale_per_vote |-> [v \in 0..(n_votes - 1) |-> w.scale * p + w.exist * e]]

\* cv_ops.geometric_transform(params, similarity=True, nonlinear=True,
\* as_matrix=True): the six parameters are (scale_x, scale_y, theta, shear,
\* trans_x, trans_y); the scale is squashed to a positive bounded value,
\* the translations are squashed to [-1, 1], theta counts whole turns
Squash(t) == IF t >= 1 THEN 2 ELSE 1
Clamp(t) == IF t > 1 THEN 1 ELSE IF t < -1 THEN -1 ELSE t

GeometricTransform(params) ==
    << <<Squash(params[1]), 0, Clamp(params[5])>>,
       <<0, Squash(params[1]), Clamp(params[6])>>,
       <<0, 0, 1>> >>

\* torch.matmul of two 3x3 matrices
MatMul(A, Bm) ==
    [i \in 1..3 |-> [j \in 1..3 |->
        A[i][1] * Bm[1][j] + A[i][2] * Bm[2][j] + A[i][3] * Bm[3][j]]]

\* math_ops.l2_loss: half the sum of squares, as num/den
L2Loss(sumsq) == [num |-> sumsq, den |-> 2]

\* torch.sigmoid of a logit given in decades, in units of 1/PScale
Sigmoid(l) ==
    IF l >= 0 THEN (PScale * Exp10W(0)) \div (Exp10W(0) + Exp10W(-l))
    ELSE (PScale * Exp10W(l)) \div (Exp10W(0) + Exp10W(l))

\* F.softplus(t + .5) + 1e-2 in units of 1/SScale, rounded
SoftplusScale(t) ==
    CASE t <= -2 -> 2
      [] t = -1 -> 5
      [] t = 0 -> 10
      [] t = 1 -> 17
      [] OTHER -> 10 * t + 6

\* the noise types drawn: None, the falsy '', 'uniform', and the 'normal' of
\* the docstring.  'logistic' is not drawn: its branch samples a
\* LogisticNormal, whose sample shape is the library's business.
NoiseTypes == {"None", "", "uniform", "normal"}

\* CapsuleLayer.__init__ and _build: stores the options, allocates one MLP
\* pair per capsule, zero-initialised biases and the static object-part
\* relation; raises nothing
NewCapsuleLayer(n_caps, n_votes, caps_dropout_rate, learn_vote_scale, allow_deformations, noise_type, cpr_static) ==
    [n_caps |-> n_caps,
     n_votes |-> n_votes,
     caps_dropout_rate |-> caps_dropout_rate,
     learn_vote_scale |-> learn_vote_scale,
     allow_deformations |-> allow_deformations,
     noise_type |-> noise_type,
     noise_scale |-> 2,
     mlps |-> [o \in 0..(n_caps - 1) |-> [w |-> 1, b |-> 0]],
     caps_mlps |-> [o \in 0..(n_caps - 1) |->
        [cpr |-> 1, cvr |-> 1, pres_caps |-> 1,
         pres_vote |-> IF o % 2 = 0 THEN 1 ELSE -1, scale |-> 1, exist |-> 0]],
     caps_bias_list |-> [cvr |-> 0, presence_per_caps |-> 0,
                         presence_per_vote |-> 0, scale_per_vote |-> 0],
     cpr_static |-> cpr_static]

Error(kind, line) == [status |-> "error", error |-> kind, line |-> line]

\* raw_caps_param (B, O, D): capsule i reads caps_feature_list[i]
RawCapsParam(Lyr, feature, b, o) == MLP(Lyr.mlps[o], feature[b][o])

\* result of the second MLP of capsule o for batch entry b; caps_exist is 1
AllParam(Lyr, feature, b, o) ==
    CapsMLP(Lyr.caps_mlps[o], RawCapsParam(Lyr, feature, b, o), 1, Lyr.n_votes)

\* the allow_deformations switch ignored
CprDynamicNeverZeroed(Lyr, feature, b, o) ==
    CapsMLP(Lyr.caps_mlps[o], MLP(Lyr.mlps[o], feature[b][o]), 1,
            Lyr.n_votes).cpr_dynamic

\* cpr_dynamic (B, O, V, P): zeroed when deformations are not allowed
CprDynamic(Lyr, feature, b, o) ==
    IF ~Lyr.allow_deformations
    THEN [v \in 0..(Lyr.n_votes - 1) |-> [k \in 1..n_transform_params |-> 0]]
    ELSE AllParam(Lyr, feature, b, o).cpr_dynamic

\* cpr_dynamic_reg_loss = l2_loss(cpr_dynamic) / batch_size
CprDynamicRegLoss(Lyr, feature) ==
    LET B == Dim(feature)
        sq == [b \in 0..(B - 1) |-> SumRange([o \in 0..(Lyr.n_caps - 1) |->
                 SumRange([v \in 0..(Lyr.n_votes - 1) |->
                    SumRange([k \in 0..(n_transform_params - 1) |->
                        CprDynamic(Lyr, feature, b, o)[v][k + 1] *
                        CprDynamic(Lyr, feature, b, o)[v][k + 1]],
                        n_transform_params)], Lyr.n_votes)], Lyr.n_caps)]
        l2 == L2Loss(SumRange(sq, B))
    IN  [num |-> l2.num, den |-> l2.den * B]

\* cpr (B, O, V, 3, 3) = _make_transform(cpr_dynamic + cpr_static)
Cpr(Lyr, feature, b, o, v) ==
    GeometricTransform([k \in 1..n_transform_params |->
        CprDynamic(Lyr, feature, b, o)[v][k] + Lyr.cpr_static[o][v][k]])

\* cvr (B, O, 1, 3, 3): the parent transform if given, else the transform
\* of the predicted object-viewer parameters plus bias
Cvr(Lyr, feature, parent_transform, b, o) ==
    IF parent_transform = None
    THEN GeometricTransform([k \in 1..n_transform_params |->
            AllParam(Lyr, feature, b, o).cvr[k] + Lyr.caps_bias_list.cvr])
    ELSE parent_transform.t[b][o]

\* vote (B, O, V, 3, 3) = matmul(cvr_per_vote, cpr)
Vote(Lyr, feature, parent_transform, b, o, v) ==
    MatMul(Cvr(Lyr, feature, parent_transform, b, o), Cpr(Lyr, feature, b, o, v))

\* the final else of add_noise missing: anything goes
NoiseTypeAcceptedAny(Lyr) == Lyr.noise_type = Lyr.noise_type

\* add_noise accepts the noise type: uniform, logistic or falsy
NoiseTypeAccepted(Lyr) == Lyr.noise_type \in {"None", "", "uniform", "logistic"}

\* add_noise(tensor) for one element; n is the element's uniform sample
\* (rand - 0.5) * noise_scale
AddNoise(Lyr, t, n) == IF Lyr.noise_type = "uniform" THEN t + n ELSE t

\* the samples (rand - 0.5) * noise_scale on the integer grid
NoiseSamples(Lyr) ==
    IF Lyr.noise_type = "uniform"
    THEN {n \in -Lyr.noise_scale..Lyr.noise_scale : 2 * n >= -Lyr.noise_scale
                                                     /\ 2 * n < Lyr.noise_scale}
    ELSE {0}

\* presence_logit_per_caps (B, O, 1) after bias and noise
PresenceLogitPerCaps(Lyr, feature, noise, b, o) ==
    AddNoise(Lyr, AllParam(Lyr, feature, b, o).presence_per_caps
                    + Lyr.caps_bias_list.presence_per_caps, noise.caps)

\* presence_logit_per_vote (B, O, V) after bias and noise
PresenceLogitPerVote(Lyr, feature, noise, b, o, v) ==
    AddNoise(Lyr, AllParam(Lyr, feature, b, o).presence_per_vote[v]
                    + Lyr.caps_bias_list.presence_per_vote, noise.vote)

\* presence_per_caps (B, O, 1): the parent presence if given, else sigmoid
PresencePerCaps(Lyr, feature, parent_presence, noise, b, o) ==
    IF parent_presence # None THEN parent_presence.t[b][o]
    ELSE Sigmoid(PresenceLogitPerCaps(Lyr, feature, noise, b, o))

\* the sum where the product belongs
PresencePerVoteSum(Lyr, feature, parent_presence, noise, b, o, v) ==
    PresencePerCaps(Lyr, feature, parent_presence, noise, b, o)
        + Sigmoid(PresenceLogitPerVote(Lyr, feature, noise, b, o, v))

\* presence_per_vote (B, O, V) = presence_per_caps * sigmoid(per-vote logit)
PresencePerVote(Lyr, feature, parent_presence, noise, b, o, v) ==
    (PresencePerCaps(Lyr, feature, parent_presence, noise, b, o)
        * Sigmoid(PresenceLogitPerVote(Lyr, feature, noise, b, o, v))) \div PScale

\* scale_per_vote (B, O, V)
ScalePerVote(Lyr, feature, b, o, v) ==
    IF Lyr.learn_vote_scale
    THEN SoftplusScale(AllParam(Lyr, feature, b, o).scale_per_vote[v]
                        + Lyr.caps_bias_list.scale_per_vote)
    ELSE SScale

\* CapsuleLayer.forward(feature, parent_transform, parent_presence); noise
\* holds the samples add_noise draws
CapsuleLayerForward(Lyr, feature, parent_transform, parent_presence, noise) ==
    LET B == Dim(feature)
        BI == 0..(B - 1)
        OI == 0..(Lyr.n_caps - 1)
        VI == 0..(Lyr.n_votes - 1)
    IN  IF Dim(feature[0]) < Lyr.n_caps
        THEN Error("IndexError", 142)               \* caps_feature_list[i]
        ELSE IF Lyr.caps_dropout_rate > 0
        THEN Error("UnboundLocalError", 197)        \* caps_exist was deleted
        ELSE IF ~NoiseTypeAccepted(Lyr)
        THEN Error("ValueError", 209)               \* Invalid noise type
        ELSE
        [status |-> "ok",
         vote |-> [b \in BI |-> [o \in OI |-> [v \in VI |->
                    Vote(Lyr, feature, parent_transform, b, o, v)]]],
         scale |-> [b \in BI |-> [o \in OI |-> [v \in VI |->
                    ScalePerVote(Lyr, feature, b, o, v)]]],
         vote_presence |-> [b \in BI |-> [o \in OI |-> [v \in VI |->
                    PresencePerVote(Lyr, feature, parent_presence, noise, b, o, v)]]],
         presence_logit_per_caps |-> [b \in BI |-> [o \in OI |->
                    PresenceLogitPerCaps(Lyr, feature, noise, b, o)]],
         presence_logit_per_vote |-> [b \in BI |-> [o \in OI |-> [v \in VI |->
                    PresenceLogitPerVote(Lyr, feature, noise, b, o, v)]]],
         cpr_dynamic_reg_loss |-> CprDynamicRegLoss(Lyr, feature),
         raw_caps_param |-> [b \in BI |-> [o \in OI |->
                    RawCapsParam(Lyr, feature, b, o)]],
         raw_caps_feature |-> feature]


\* ------------------------------------------------------------- SpecLayer
\* A CapsuleLayer is constructed, then forward is called on it.
DropoutRates == {0, 50}
FeatureLevels == {-1, 0, 1}

\* learned static object-part relation (1, O, V, P)
CprStatic(n_caps, n_votes, sel) ==
    [o \in 0..(n_caps - 1) |-> [v \in 0..(n_votes - 1) |->
        [k \in 1..n_transform_params |->
            CASE k = 1 -> sel
              [] k = 5 -> sel * (v % 2)
              [] k = 6 -> sel * (o % 2)
              [] OTHER -> 0]]]

\* a feature tensor (B, C, 1)
Feature(B, C, fsel) ==
    [b \in 0..(B - 1) |-> [c \in 0..(C - 1) |-> fsel * (1 + ((b + c) % 2))]]

\* a parent transform (B, O, 1, 3, 3): a translation
ParentTransform(B, O) ==
    [b \in 0..(B - 1) |-> [o \in 0..(O - 1) |->
        << <<1, 0, 1>>, <<0, 1, 0>>, <<0, 0, 1>> >>]]

\* a parent presence (B, O, 1)
ParentPresence(B, O) ==
    [b \in 0..(B - 1) |-> [o \in 0..(O - 1) |-> PScale \div 2]]

IdleLik ==
    /\ lik = NoObject /\ lik_x = NoObject /\ lik_presence = None /\ lik_res = Pending

InitLayer ==
    /\ IdleLik
    /\ layer = NoObject /\ layer_call = Pending
    /\ dec = NoObject /\ dec_call = Pending
    /\ st = NoObject /\ st_call = Pending

LayerConstruct ==
    /\ layer = NoObject
    /\ \E n_caps \in 1..MaxCaps, n_votes \in 1..MaxPoints, rate \in DropoutRates,
          learn_vote_scale \in BOOLEAN, allow_deformations \in BOOLEAN,
          noise_type \in NoiseTypes, sel \in {0, 1} :
        layer' = NewCapsuleLayer(n_caps, n_votes, rate, learn_vote_scale,
                    allow_deformations, noise_type,
                    CprStatic(n_caps, n_votes, sel))
    /\ UNCHANGED <<likVars, layer_call, decVars, stVars>>

LayerForward ==
    /\ layer # NoObject
    /\ layer_call = Pending
    /\ \E B \in 1..MaxBatch, fsel \in FeatureLevels,
          C \in {c \in (layer.n_caps - 1)..(layer.n_caps + 1) : c >= 1},
          nc \in NoiseSamples(layer), nv \in NoiseSamples(layer) :
       \E pt \in {None, Some(ParentTransform(B, layer.n_caps))},
          pp \in {None, Some(ParentPresence(B, layer.n_caps))} :
        LET noise == [caps |-> nc, vote |-> nv] IN
        layer_call' = [feature |-> Feature(B, C, fsel),
                       parent_transform |-> pt,
                       parent_presence |-> pp,
                       noise |-> noise,
                       out |-> CapsuleLayerForward(layer, Feature(B, C, fsel),
                                                   pt, pp, noise)]
    /\ UNCHANGED <<likVars, layer, decVars, stVars>>

NextLayer == LayerConstruct \/ LayerForward

SpecLayer == InitLayer /\ [][NextLayer]_vars

\* ------------------------------------------------------------- CapsuleObjectDecoder
\* CapsuleObjectDecoder.__init__: the layer and a zero dummy vote (1, 1, V, P)
NewCapsuleObjectDecoder(capsule_layer) ==
    [capsule_layer |-> capsule_layer,
     dummy_vote |-> [v \in 0..(capsule_layer.n_votes - 1) |-> Vec(0)]]

\* the rows kept of each 3x3 vote matrix
VoteRowsAll == 3

\* the slice [..., :-1, :] left out: all rows kept
VoteRowsUntrimmed == VoteRowsAll

\* rows of a vote matrix left by res.vote[..., :-1, :]
VoteRows == VoteRowsAll - 1

\* res.vote[..., :-1, :].view(batch_size, n_caps, n_votes, 6): element
\* (b, o, m, k) of the view is the element of the same flat offset of the
\* (B, O, V, 2, 3) tensor
ViewVote(vote, Ol, Vl, Oh, Mx, b, o, m, k) ==
    LET flat == ((b * Oh + o) * Mx + m) * n_transform_params + (k - 1)
        j == flat % 3
        i == (flat \div 3) % VoteRows
        v == (flat \div (3 * VoteRows)) % Vl
        o2 == (flat \div (3 * VoteRows * Vl)) % Ol
        b2 == flat \div (3 * VoteRows * Vl * Ol)
    IN  vote[b2][o2][v][i + 1][j + 1]

\* dict.update: the keys of other replace those of res
Update(res, other) == other @@ res

\* caps_presence_prob (B, O): max over the votes of vote_presence_prob
CapsPresenceProb(vote_presence_prob, n_votes, b, o) ==
    MaxRange(vote_presence_prob[b][o], n_votes)

\* CapsuleObjectDecoder.forward(h, x, presence); noise holds the samples the
\* layer's add_noise draws
DecoderForward(D, h, x, presence, noise) ==
    LET Lyr == D.capsule_layer
        batch_size == Dim(h)
        n_caps == Dim(h[0])
        n_votes == Dim(x[0])
        res == CapsuleLayerForward(Lyr, h, None, None, noise)
        BI == 0..(batch_size - 1)
    IN  IF res.status # "ok" THEN res
        ELSE IF batch_size * Lyr.n_caps * Lyr.n_votes * VoteRows * 3
                    # batch_size * n_caps * n_votes * 6
        THEN Error("RuntimeError", 422)       \* view: shape invalid for input size
        ELSE
        LET vote == [b \in BI |-> [o \in 0..(n_caps - 1) |-> [m \in 0..(n_votes - 1) |->
                        [k \in 1..n_transform_params |->
                            ViewVote(res.vote, Lyr.n_caps, Lyr.n_votes,
                                     n_caps, n_votes, b, o, m, k)]]]]
            vote_presence_prob == res.vote_presence
            likelihood == NewCapsuleLikelihood(vote, res.scale, vote_presence_prob,
                                               D.dummy_vote)
            ll_res == LikelihoodForward(likelihood, x, presence)
        IN  Update(Update([res EXCEPT !.vote = vote], ll_res),
                   [caps_presence_prob |-> [b \in BI |-> [o \in 0..(n_caps - 1) |->
                        CapsPresenceProb(vote_presence_prob, n_votes, b, o)]]])

\* ------------------------------------------------------------- SpecDec
\* A decoder is built around a fresh CapsuleLayer, then forward is called.
MaxDecCaps == 3
MaxDecVotes == 4
MaxDecPoints == 5

\* observed points (B, M, P)
Points(B, M) == [b \in 0..(B - 1) |-> [m \in 0..(M - 1) |-> Vec(m + b)]]

InitDec ==
    /\ IdleLik
    /\ layer = NoObject /\ layer_call = Pending
    /\ dec = NoObject /\ dec_call = Pending
    /\ st = NoObject /\ st_call = Pending

DecConstruct ==
    /\ dec = NoObject
    /\ \E n_caps \in 1..MaxDecCaps, n_votes \in 1..MaxDecVotes,
          learn_vote_scale \in BOOLEAN, noise_type \in {"None", "uniform"} :
        dec' = NewCapsuleObjectDecoder(
                    NewCapsuleLayer(n_caps, n_votes, 0, learn_vote_scale, TRUE,
                                    noise_type, CprStatic(n_caps, n_votes, 1)))
    /\ UNCHANGED <<likVars, layerVars, dec_call, stVars>>

DecForward ==
    /\ dec # NoObject
    /\ dec_call = Pending
    /\ \E B \in 1..MaxBatch, M \in 1..MaxDecPoints, fsel \in FeatureLevels \ {0},
          nc \in NoiseSamples(dec.capsule_layer),
          nv \in NoiseSamples(dec.capsule_layer) :
       \E presence \in {None, Some(Ones(B, M))} :
        LET noise == [caps |-> nc, vote |-> nv]
            h == Feature(B, dec.capsule_layer.n_caps, fsel)
        IN  dec_call' = [h |-> h, x |-> Points(B, M), presence |-> presence,
                         noise |-> noise,
                         out |-> DecoderForward(dec, h, Points(B, M), presence, noise)]
    /\ UNCHANGED <<likVars, layerVars, dec, stVars>>

NextDec == DecConstruct \/ DecForward

SpecDec == InitDec /\ [][NextDec]_vars

\* ------------------------------------------------------------- set_transformer
\* One channel (dim_in = dim_hidden = dim_out = 1) and one head, so that
\* sqrt(d_k) = 1 and split/cat over the heads leave the tensors as they are.
\* Tensor entries are integers; attention scores are in units of ln(10).
\* LayerNorm is off (the constructor's default).

\* the bias 1e32 subtracted from the score of an absent key
MaskBias == 10 ^ 8

Linear(l, v) == l.w * v + l.b

Relu(v) == IF v > 0 THEN v ELSE 0

\* routing - (1 - presence) * 1e32, row n of one batch entry; a score is far
\* below the float spacing at 1e32, so the difference is -1e32 itself
Routing(q, k, presence, n) ==
    Tab([m \in 0..(Dim(k) - 1) |->
            IF presence = None \/ presence.t[m] = 1 THEN q[n] * k[m] ELSE -MaskBias],
        Dim(k))

\* qkv_attention, row n of one batch entry: softmax(routing) x values, the
\* quotient rounded to the nearest integer
QkvAttention(q, k, v, presence, n) ==
    LET sm == Softmax(Routing(q, k, presence, n), Dim(k))
        tot == SumRange([m \in 0..(Dim(k) - 1) |-> sm.num[m] * v[m]], Dim(k))
    IN  [out |-> (2 * tot + sm.den) \div (2 * sm.den), routing |-> sm]

\* MultiHeadQKVAttention.forward for one batch entry
MultiHeadQKVAttention(A, queries, keys, values, presence) ==
    LET q_p == Tab([n \in 0..(Dim(queries) - 1) |-> Linear(A.q_projector, queries[n])],
                   Dim(queries))
        k_p == Tab([m \in 0..(Dim(keys) - 1) |-> Linear(A.k_projector, keys[m])],
                   Dim(keys))
        v_p == Tab([m \in 0..(Dim(values) - 1) |-> Linear(A.v_projector, values[m])],
                   Dim(values))
        o == Tab([n \in 0..(Dim(queries) - 1) |->
                    QkvAttention(q_p, k_p, v_p, presence, n)], Dim(queries))
    IN  [out |-> Tab([n \in 0..(Dim(queries) - 1) |-> Linear(A.o_projector, o[n].out)],
                     Dim(queries)),
         routing |-> Tab([n \in 0..(Dim(queries) - 1) |-> o[n].routing], Dim(queries))]

\* MAB.forward for one batch entry: attention, residual, feed-forward
MAB(Mb, queries, keys, presence) ==
    LET a == MultiHeadQKVAttention(Mb.mqkv, queries, keys, keys, presence)
        h == Tab([n \in 0..(Dim(queries) - 1) |-> a.out[n] + queries[n]], Dim(queries))
    IN  [h |-> Tab([n \in 0..(Dim(queries) - 1) |-> h[n] + Relu(Linear(Mb.fc, h[n]))],
                   Dim(queries)),
         routing |-> a.routing]

SAB(blk, x, presence) == MAB(blk.mab, x, x, presence).h

\* ISAB.forward: the inducing points attend to x under the mask, then x
\* attends to them with no mask
ISAB(blk, x, presence) ==
    MAB(blk.mab1, x, MAB(blk.mab0, blk.I, x, presence).h, None).h

PMA(blk, x, presence) == MAB(blk.mab, blk.S, x, presence)

\* the loop over self.sabs, blocks i..n_layers-1
RECURSIVE Sabs(_, _, _, _)
Sabs(S, h, presence, i) ==
    IF i = Dim(S.sabs) THEN h
    ELSE Sabs(S, IF S.sabs[i].kind = "SAB" THEN SAB(S.sabs[i], h, presence)
                 ELSE ISAB(S.sabs[i], h, presence),
              presence, i + 1)

\* SetTransformer.forward for batch entry b
SetTransformerRow(S, x, presence, b) ==
    LET M == Dim(x[b])
        p == IF presence = None THEN None ELSE Some(presence.t[b])
        h == Tab([m \in 0..(M - 1) |-> Linear(S.fc1, x[b][m])], M)
        hs == Sabs(S, h, p, 0)
        z == Tab([m \in 0..(M - 1) |-> Linear(S.fc2, hs[m])], M)
    IN  PMA(S.pma, z, p)

\* SetTransformer.forward: the output (B, n_outputs) and, beside it, the
\* attention weights of the pooling step (B, n_outputs, M)
SetTransformerForward(S, x, presence) ==
    LET r == Tab([b \in 0..(Dim(x) - 1) |-> SetTransformerRow(S, x, presence, b)], Dim(x))
    IN  [status |-> "ok",
         out |-> Tab([b \in 0..(Dim(x) - 1) |-> r[b].h], Dim(x)),
         pma_routing |-> Tab([b \in 0..(Dim(x) - 1) |-> r[b].routing], Dim(x))]

\* learned parameters: projections of weight 1 (keys: ksel), no bias; the
\* feed-forward layer has bias -2, so that the relu clips
NewMAB(ksel) ==
    [mqkv |-> [q_projector |-> [w |-> 1, b |-> 0],
               k_projector |-> [w |-> ksel, b |-> 0],
               v_projector |-> [w |-> 1, b |-> 0],
               o_projector |-> [w |-> 1, b |-> 0]],
     layer_norm |-> FALSE,
     fc |-> [w |-> 1, b |-> -2]]

\* the inducing points I and the seeds S: n distinct learned values
Learned(n) == Tab([i \in 0..(n - 1) |-> i + 1], n)

NewSetTransformer(n_outputs, n_layers, n_inducing_points, ksel) ==
    [fc1 |-> [w |-> 1, b |-> 0],
     sabs |-> Tab([i \in 0..(n_layers - 1) |->
                    IF n_inducing_points = None
                    THEN [kind |-> "SAB", mab |-> NewMAB(ksel)]
                    ELSE [kind |-> "ISAB", mab0 |-> NewMAB(ksel), mab1 |-> NewMAB(ksel),
                          I |-> Learned(n_inducing_points.t)]], n_layers),
     fc2 |-> [w |-> 1, b |-> 0],
     pma |-> [mab |-> NewMAB(ksel), S |-> Learned(n_outputs)]]

\* ------------------------------------------------------------- SpecST
\* A set transformer is built, then run once on a point set and a mask.
MaxLayers == 1
CoordLevels == {0, 1, 2}

\* the points of batch entry b: the drawn row shifted by b
STPoints(B, M, row) == Tab([b \in 0..(B - 1) |-> Tab([m \in 0..(M - 1) |-> row[m] + b], M)], B)

\* the mask of batch entry b: the drawn row rotated by b
STPresence(B, M, mrow) ==
    Some(Tab([b \in 0..(B - 1) |-> Tab([m \in 0..(M - 1) |-> mrow[(m + b) % M]], M)], B))

InitST ==
    /\ IdleLik
    /\ layer = NoObject /\ layer_call = Pending
    /\ dec = NoObject /\ dec_call = Pending
    /\ st = NoObject /\ st_call = Pending

STConstruct ==
    /\ st = NoObject
    /\ \E n_outputs \in 1..MaxCaps, n_layers \in 0..MaxLayers,
          n_inducing_points \in {None, Some(1)}, ksel \in {1, -1} :
        st' = NewSetTransformer(n_outputs, n_layers, n_inducing_points, ksel)
    /\ UNCHANGED <<likVars, layerVars, decVars, st_call>>

STForward ==
    /\ st # NoObject
    /\ st_call = Pending
    /\ \E B \in 1..MaxBatch, M \in 1..MaxPoints :
       \E row \in [0..(M - 1) -> CoordLevels] :
       \E presence \in {None} \cup {STPresence(B, M, mrow) : mrow \in [0..(M - 1) -> {0, 1}]} :
            LET x == STPoints(B, M, row)
            IN  st_call' = [x |-> x, presence |-> presence,
                            out |-> SetTransformerForward(st, x, presence)]
    /\ UNCHANGED <<likVars, layerVars, decVars, st>>

NextST == STConstruct \/ STForward

SpecST == InitST /\ [][NextST]_vars

\* ------------------------------------------------------------- claims, SpecLik
LikDone == lik_res # Pending /\ lik_res.status = "ok"
LikB == 0..(Dim(lik_x) - 1)
LikM == 0..(Dim(lik_x[0]) - 1)

\* 1 capsule, 1 vote, the real component's presence probability 0
C1_Scenario ==
    /\ LikDone
    /\ lik.n_caps = 1
    /\ Dim(lik_x[0]) = 1
    /\ \A b \in LikB : lik.vote_presence_prob[b][0][0] = 0

\* C1 as stated: in the 1-capsule 1-vote scenario with presence probability
\* 0, the hard winner of every point is the dummy slot (component index
\* n_caps) and vote_presence is false everywhere.
C1_DummyIsHardWinner ==
    C1_Scenario =>
        \A b \in LikB : \A m \in LikM :
            /\ lik_res.is_from_capsule[b][m] = lik.n_caps
            /\ lik_res.vote_presence[b][0][m] = 0

\* C1 amended: in that scenario the hard winner of every point is the single
\* real component (index 0, the dummy is not eligible): winner is its vote,
\* winner_presence its presence probability 0; vote_presence is false for
\* every (capsule, point).
C1_RealIsHardWinner ==
    C1_Scenario =>
        \A b \in LikB : \A m \in LikM :
            /\ lik_res.is_from_capsule[b][m] = 0
            /\ lik_res.winner[b][m] = lik.vote[b][0][m]
            /\ lik_res.winner_presence[b][m] = 0
            /\ lik_res.mixing_logit[b][0][m] = LogFloor
            /\ lik_res.mixing_logit[b][1][m] = DummyLogit
            /\ lik_res.vote_presence[b][0][m] = 0

C1_Witness == C1_Scenario /\ Dim(lik_x) = MaxBatch

\* C3 as stated: the returned posterior_mixing_prob values of every
\* (batch, point) sum to 1.
C3_ReturnedPosteriorSumsToOne ==
    LikDone =>
        \A b \in LikB : \A m \in LikM :
            SumRange(lik_res.posterior_mixing_prob[b][m].num, lik.n_caps)
                = lik_res.posterior_mixing_prob[b][m].den

\* C3 amended: the posterior over all n_caps + 1 components sums to 1; the
\* returned posterior_mixing_prob holds the n_caps real components only
\* (dummy column dropped), so per (batch, point) it sums to 1 minus the
\* dummy's posterior probability, which is positive.
C3_PosteriorSumsToOneWithDummy ==
    LikDone =>
        \A b \in LikB : \A m \in LikM :
            LET pl == PosteriorMixingLogits(lik, lik_x, b, m)
                mx == MaxRange(pl, lik.n_caps + 1)
                dummy == Exp10W(pl[lik.n_caps] - mx)
                ret == lik_res.posterior_mixing_prob[b][m]
            IN  /\ DOMAIN ret.num = 0..(lik.n_caps - 1)
                /\ \A o \in DOMAIN ret.num : ret.num[o] = Exp10W(pl[o] - mx)
                /\ dummy > 0
                /\ SumRange(ret.num, lik.n_caps) + dummy = ret.den

\* a point whose posterior is shared between a real component and the dummy
C3_Witness ==
    /\ LikDone
    /\ \E b \in LikB : \E m \in LikM :
        LET ret == lik_res.posterior_mixing_prob[b][m]
        IN  /\ SumRange(ret.num, lik.n_caps) > 0
            /\ SumRange(ret.num, lik.n_caps) < ret.den

\* the per-point mixture log-probability of the call, no mask applied
C5_PerPoint(b, m) ==
    LogSumExp([o \in 0..lik.n_caps |->
        MixingLogit(lik, lik_x, b, o, m) + VoteLogProb(lik, lik_x, b, o, m)], lik.n_caps + 1)

\* C5: with a presence mask, log_prob is the batch mean of the per-example
\* sum, over the points with presence 1 only, of the per-point mixture
\* log-probability: absent points contribute exactly 0.
C5_AbsentPointsContributeZero ==
    (LikDone /\ lik_presence # None) =>
        /\ lik_res.log_prob.den = Dim(lik_x)
        /\ lik_res.log_prob.num =
            SumRange([b \in LikB |->
                SumRange([m \in LikM |->
                    IF lik_presence.t[b][m] = 1 THEN C5_PerPoint(b, m) ELSE 0],
                    Dim(lik_x[0]))], Dim(lik_x))

\* a masked call with an absent point whose own mixture log-probability is
\* not 0, beside a present point
C5_Witness ==
    /\ LikDone
    /\ lik_presence # None
    /\ \E b \in LikB : \E m, m2 \in LikM :
        /\ lik_presence.t[b][m] = 0
        /\ lik_presence.t[b][m2] = 1
        /\ C5_PerPoint(b, m) # 0

\* ------------------------------------------------------------- claims, SpecLayer
LayerDone == layer # NoObject /\ layer_call # Pending
LayerOk == LayerDone /\ layer_call.out.status = "ok"

\* the call repeated on the feature tensor of the same shape drawn with fsel
C4_Again(fsel) ==
    CapsuleLayerForward(layer,
        Feature(Dim(layer_call.feature), Dim(layer_call.feature[0]), fsel),
        layer_call.parent_transform, layer_call.parent_presence, layer_call.noise)

\* C4 as stated: with allow_deformations=False and no parent_transform, any
\* two feature inputs of the same shape give equal vote tensors.
C4_VoteIndependentOfFeatures ==
    (LayerOk /\ ~layer.allow_deformations /\ layer_call.parent_transform = None) =>
        \A fsel \in FeatureLevels : C4_Again(fsel).vote = layer_call.out.vote

\* C4 amended: with allow_deformations=False the object-part relation is
\* the transform of cpr_static alone, so vote = OVR x transform(cpr_static)
\* depends on the features only through the object-viewer relation: any two
\* feature inputs of the same shape given the same parent_transform yield
\* equal vote tensors.
C4_VoteDependsOnFeaturesOnlyThroughOvr ==
    (LayerOk /\ ~layer.allow_deformations) =>
        /\ \A b \in DOMAIN layer_call.out.vote :
           \A o \in DOMAIN layer_call.out.vote[b] :
           \A v \in DOMAIN layer_call.out.vote[b][o] :
                layer_call.out.vote[b][o][v] =
                    MatMul(Cvr(layer, layer_call.feature,
                               layer_call.parent_transform, b, o),
                           GeometricTransform(layer.cpr_static[o][v]))
        /\ layer_call.parent_transform # None =>
                \A fsel \in FeatureLevels : C4_Again(fsel).vote = layer_call.out.vote

\* deformations off, a parent transform given, non-zero features whose
\* dynamic object-part parameters are not zero
C4_Witness ==
    /\ LayerOk
    /\ ~layer.allow_deformations
    /\ layer_call.parent_transform # None
    /\ AllParam(layer, layer_call.feature, 0, 0).cpr_dynamic[0][1] # 0
    /\ layer.cpr_static[0][0][1] = 0

\* C7 as stated: forward fails whenever the capsule axis of the features is
\* not exactly n_caps, with fewer and with more entries alike.
C7_WrongCapsAxisFails ==
    (LayerDone /\ Dim(layer_call.feature[0]) # layer.n_caps) =>
        layer_call.out.status = "error"

DecDone == dec # NoObject /\ dec_call # Pending
DecOk == DecDone /\ dec_call.out.status = "ok"
DecB == Dim(dec_call.h)
DecM == Dim(dec_call.x[0])

\* batch 2, 3 capsules, 4 votes per capsule, all-ones presence, n points
C2_Scenario(n) ==
    /\ DecDone
    /\ DecB = 2
    /\ dec.capsule_layer.n_caps = 3
    /\ dec.capsule_layer.n_votes = 4
    /\ DecM = n
    /\ dec_call.presence = Some(Ones(2, n))

\* shapes of the returned votes, log-likelihood and hard-winner coordinates
C2_Shapes(points) ==
    /\ Dim(dec_call.out.vote) = DecB
    /\ \A b \in DOMAIN dec_call.out.vote :
        /\ Dim(dec_call.out.vote[b]) = dec.capsule_layer.n_caps
        /\ \A o \in DOMAIN dec_call.out.vote[b] :
            /\ Dim(dec_call.out.vote[b][o]) = dec.capsule_layer.n_votes
            /\ \A v \in DOMAIN dec_call.out.vote[b][o] :
                Dim(dec_call.out.vote[b][o][v]) = 6
    /\ DOMAIN dec_call.out.log_prob = {"num", "den"}
    /\ Dim(dec_call.out.winner) = DecB
    /\ \A b \in DOMAIN dec_call.out.winner :
        /\ Dim(dec_call.out.winner[b]) = points
        /\ \A m \in DOMAIN dec_call.out.winner[b] :
            Dim(dec_call.out.winner[b][m]) = 6

\* C2 as stated: batch 2, 3 capsules, 4 votes, 5 observed points completes
\* with votes [2,3,4,6], a scalar log-likelihood and winners [2,5,6].
C2_FivePointsFourVotes ==
    C2_Scenario(5) => (dec_call.out.status = "ok" /\ C2_Shapes(5))

\* C2 amended: forward completes exactly when the number of observed points
\* equals the number of votes per capsule (n_votes is read off x.shape[1]):
\* batch 2, 3 capsules, 4 votes, 4 points returns votes [2,3,4,6], a scalar
\* log-likelihood and winners [2,4,6]; with 5 points the view of the votes
\* raises and nothing is returned.
C2_PointsMustEqualVotes ==
    DecDone =>
        IF DecM = dec.capsule_layer.n_votes
        THEN dec_call.out.status = "ok" /\ C2_Shapes(DecM)
        ELSE /\ dec_call.out.status = "error"
             /\ dec_call.out.error = "RuntimeError"

C2_Witness == C2_Scenario(4) /\ dec_call.out.status = "ok" /\ C2_Shapes(4)

\* the per-vote presence probability the capsule layer computed in the call
C6_LayerVotePresence(b, o, v) ==
    PresencePerVote(dec.capsule_layer, dec_call.h, None, dec_call.noise, b, o, v)

\* C6 as stated: the returned record still holds the capsule layer's
\* per-vote presence probabilities (its vote_presence output).
C6_LayerVotePresenceKept ==
    DecOk =>
        \A b \in DOMAIN dec_call.out.vote_presence :
        \A o \in DOMAIN dec_call.out.vote_presence[b] :
        \A v \in DOMAIN dec_call.out.vote_presence[b][o] :
            dec_call.out.vote_presence[b][o][v] * PScale = C6_LayerVotePresence(b, o, v)

\* C9: every per-vote presence probability and every caps_presence_prob of a
\* completed decoder call lies in [0, 1].
C9_PresenceProbsInUnitInterval ==
    DecOk =>
        \A b \in DOMAIN dec_call.out.caps_presence_prob :
        \A o \in DOMAIN dec_call.out.caps_presence_prob[b] :
            LET V == dec.capsule_layer.n_votes
                p == Tab([v \in 0..(V - 1) |-> C6_LayerVotePresence(b, o, v)], V)
                c == dec_call.out.caps_presence_prob[b][o]
            IN  /\ c >= 0
                /\ c <= PScale
                /\ \A v \in 0..(V - 1) : p[v] >= 0 /\ p[v] <= PScale /\ p[v] <= c
                /\ \E v \in 0..(V - 1) : p[v] = c

\* a completed call with noise whose capsules differ in presence, one of
\* them strictly between 0 and 1
C9_Witness ==
    /\ DecOk
    /\ dec.capsule_layer.noise_type = "uniform"
    /\ dec.capsule_layer.n_caps >= 2
    /\ dec_call.out.caps_presence_prob[0][0] # dec_call.out.caps_presence_prob[0][1]
    /\ dec_call.out.caps_presence_prob[0][0] > 0
    /\ dec_call.out.caps_presence_prob[0][0] < PScale

\* ------------------------------------------------------------- claims, SpecST
STDone == st # NoObject /\ st_call # Pending
STB == Dim(st_call.x)
STM == Dim(st_call.x[0])

\* the point sets of the same shape that agree with the call's on every
\* point its mask marks present
C10_SameOnPresent ==
    {x2 \in {STPoints(STB, STM, row) : row \in [0..(STM - 1) -> CoordLevels]} :
        \A b \in 0..(STB - 1) : \A m \in 0..(STM - 1) :
            st_call.presence.t[b][m] = 1 => x2[b][m] = st_call.x[b][m]}

\* C10 as stated: for every presence mask, a masked key gets zero attention
\* weight in the pooling step and the output does not change when the
\* coordinates of absent points change.
C10_AbsentPointsDoNotAffectOutput ==
    (STDone /\ st_call.presence # None) =>
        /\ \A b \in 0..(STB - 1) : \A n \in DOMAIN st_call.out.pma_routing[b] :
           \A m \in 0..(STM - 1) :
                st_call.presence.t[b][m] = 0 =>
                    st_call.out.pma_routing[b][n].num[m] = 0
        /\ \A x2 \in C10_SameOnPresent :
                SetTransformerForward(st, x2, st_call.presence).out = st_call.out.out

\* ------------------------------------------------------------- claims, capsule dropout
\* C11 as stated: a layer built with caps_dropout_rate in (0, 1] completes
\* forward on a feature tensor with n_caps capsules (the noise type being
\* one add_noise accepts) and returns a result.
C11_DropoutForwardCompletes ==
    (/\ LayerDone
     /\ layer.caps_dropout_rate > 0
     /\ Dim(layer_call.feature[0]) = layer.n_caps
     /\ NoiseTypeAccepted(layer)) =>
        layer_call.out.status = "ok"

\* ------------------------------------------------------------- claims, mixture components
\* the posterior logit of component o for point (b, m), from vote slot m of
\* capsule o alone; the dummy is component n_caps
C12_ComponentLogit(b, o, m) ==
    IF o = lik.n_caps THEN DummyLogit + DummyVoteLogProb
    ELSE LogSafe(lik.vote_presence_prob[b][o][m])
         + SumRange([k \in 0..(n_transform_params - 1) |->
              NormalLogProb(lik_x[b][m][k + 1], lik.vote[b][o][m][k + 1],
                            lik.scale[b][o][m])], n_transform_params)

\* C12 as stated: the posterior over components of every point has
\* n_capsules * n_votes_per_capsule + 1 entries.
C12_CapsTimesVotesPlusOneComponents ==
    LikDone =>
        \A b \in LikB : \A m \in LikM :
            /\ Dim(PosteriorMixingProbFull(lik,
                    PosteriorMixingLogits(lik, lik_x, b, m)).num)
                    = lik.n_caps * Dim(lik.vote[b][0]) + 1
            /\ Dim(lik_res.mixing_logit[b]) = lik.n_caps * Dim(lik.vote[b][0]) + 1

\* C12 amended: the mixture of a point has n_caps real components plus the
\* dummy (the likelihood's n_votes is 1): the only candidate of capsule o for
\* point m is vote slot m of that capsule, and the posterior over components
\* has n_caps + 1 entries, of which the n_caps real ones are returned.
C12_OneComponentPerCapsule ==
    LikDone =>
        /\ lik.n_votes = 1
        /\ \A b \in LikB :
            /\ DOMAIN lik_res.mixing_logit[b] = 0..lik.n_caps
            /\ \A m \in LikM :
                LET pl == Tab([o \in 0..lik.n_caps |-> C12_ComponentLogit(b, o, m)],
                              lik.n_caps + 1)
                    sm == Softmax(pl, lik.n_caps + 1)
                    ret == lik_res.posterior_mixing_prob[b][m]
                IN  /\ PosteriorMixingLogits(lik, lik_x, b, m) = pl
                    /\ DOMAIN ret.num = 0..(lik.n_caps - 1)
                    /\ \A o \in DOMAIN ret.num : ret.num[o] = sm.num[o]
                    /\ ret.den = sm.den

\* several vote slots per capsule, and a point that another slot of a
\* present capsule matches while its own slot does not
C12_Witness ==
    /\ LikDone
    /\ lik.n_caps >= 2
    /\ \E b \in LikB : \E m, m2 \in LikM : \E o \in 0..(lik.n_caps - 1) :
        /\ m2 # m
        /\ lik.vote[b][o][m2] = lik_x[b][m]
        /\ lik.vote[b][o][m] # lik_x[b][m]
        /\ lik.vote_presence_prob[b][o][m] > 0

\* ------------------------------------------------------------- claims, hard winner
\* C13: for each (batch, point) the hard winner is the real component with
\* the highest posterior mixing logit, the lowest index on a tie and never
\* the dummy; winner and winner_presence are that component's vote and
\* presence probability at that batch entry and point, and is_from_capsule
\* is its index, in [0, n_caps).
C13_HardWinnerIsBestRealComponent ==
    LikDone =>
        \A b \in LikB : \A m \in LikM :
            LET i == lik_res.is_from_capsule[b][m]
                pl == Tab([o \in 0..(lik.n_caps - 1) |-> C12_ComponentLogit(b, o, m)],
                          lik.n_caps)
            IN  /\ i \in 0..(lik.n_caps - 1)
                /\ \A j \in 0..(lik.n_caps - 1) :
                    /\ pl[j] <= pl[i]
                    /\ j < i => pl[j] < pl[i]
                /\ lik_res.winner[b][m] = lik.vote[b][i][m]
                /\ lik_res.winner_presence[b][m] = lik.vote_presence_prob[b][i][m]

\* two real components tied at a point, both below the dummy, the first
\* one the winner
C13_Witness ==
    /\ LikDone
    /\ lik.n_caps >= 2
    /\ \E b \in LikB : \E m \in LikM :
        /\ C12_ComponentLogit(b, 0, m) = C12_ComponentLogit(b, 1, m)
        /\ C12_ComponentLogit(b, lik.n_caps, m) > C12_ComponentLogit(b, 0, m)
        /\ lik_res.is_from_capsule[b][m] = 0

\* ------------------------------------------------------------- claims, regularisation loss
\* C14 as stated: with allow_deformations=False the returned
\* cpr_dynamic_reg_loss is that of the predicted dynamic parameters before
\* the zeroing: it equals the loss the same call yields with
\* allow_deformations=True, and is non-zero whenever a predicted dynamic
\* parameter is non-zero.
C14_RegLossOfPredictedParams ==
    (LayerOk /\ ~layer.allow_deformations) =>
        /\ layer_call.out.cpr_dynamic_reg_loss =
                CapsuleLayerForward([layer EXCEPT !.allow_deformations = TRUE],
                    layer_call.feature, layer_call.parent_transform,
                    layer_call.parent_presence, layer_call.noise).cpr_dynamic_reg_loss
        /\ (\E b \in DOMAIN layer_call.out.vote : \E o \in DOMAIN layer_call.out.vote[b] :
            \E v \in DOMAIN layer_call.out.vote[b][o] : \E k \in 1..n_transform_params :
                AllParam(layer, layer_call.feature, b, o).cpr_dynamic[v][k] # 0)
            => layer_call.out.cpr_dynamic_reg_loss.num # 0

====
